---- MODULE Spec2Model ----
(***************************************************************************)
(* Model of the synchronization simulations of js/simulations.js (the     *)
(* refactored engine, lines 622-1204).                                     *)
(*                                                                         *)
(* The engine is single threaded: every actor is an async function that   *)
(* runs until its next `await`.  The model keeps the JavaScript job queue  *)
(* explicitly: `micro` is the FIFO queue of promise continuations, and a   *)
(* macrotask (a click, a timer, a pause toggle) runs only when `micro` is  *)
(* empty.  pc[a] = <<location, stage>> is the await an actor is parked at: *)
(* the location is the call site in the actor's own function, the stage   *)
(* the position inside sleep / smartWait / checkPause called from there.   *)
(***************************************************************************)
EXTENDS Integers, Sequences, FiniteSets, TLC

\* ------------------------------------------------------------------ bounds
\* Reader-writer actor slots (a slot is reused once its actor has finished).
MaxRW == 4

\* Producers and consumers that are present at once (added and not yet returned);
\* producerId + consumerId is capped one above it, so that one more actor can be
\* added after a removed one has returned.
MaxPCActors == 2
\* Buffer capacity. The code sets 8; the model scales it down to keep the state
\* space small, every property below is stated for any capacity.
BUFFER_SIZE == 2

\* Callers of sleep in the timed model of the pacing controller.
MaxSleepers == 1
\* Largest speed multiplier (speeds are 1..MaxSpeed).
MaxSpeed == 2
\* Largest base duration passed to sleep (durations are 1..MaxMs clock units).
MaxMs == 3
\* Last instant of the clock of the timed model.
MaxTime == 4

\* Dining philosophers: tick loops alive at the same time (a slot is reused once its
\* loop has ended).
MaxLoops == 2
\* Dining philosophers: the number of philosophers and of chopsticks.
NumPhil == 5
THINKING == 0
HUNGRY == 1
EATING == 2

\* Sleeping barber: customers ever added (caps customerId).
MaxCustomers == 4
\* Sleeping barber: chairs of the waiting room. The code sets 5; the model scales it
\* down, every property below is stated for any number of chairs.
MAX_CHAIRS == 2

RWIds == {<<"A", i>> : i \in 1..MaxRW}
ProdIds == {<<"P", i>> : i \in 1..(MaxPCActors + 1)}
ConsIds == {<<"C", i>> : i \in 1..(MaxPCActors + 1)}
PCIds == ProdIds \cup ConsIds
SleepIds == {<<"S", i>> : i \in 1..MaxSleepers}
LoopIds == {<<"L", i>> : i \in 1..MaxLoops}
Phils == 0..(NumPhil - 1)
Barber == <<"B", 1>>
CustIds == {<<"K", i>> : i \in 1..MaxCustomers}
SBIds == {Barber} \cup CustIds
Actors == RWIds \cup PCIds \cup SleepIds \cup LoopIds \cup SBIds
NoActor == <<"none", 0>>
Undefined == <<"undefined", 0>>

VARIABLES
    isPaused,       \* simState.isPaused
    pauseResolver,  \* simState._pauseResolver: the actor whose promise it resolves, or NoActor
    micro,          \* the microtask queue: actors whose continuation is ready to run
    pc,             \* pc[a] = <<location, stage>>
    wrt,            \* reader-writer: semaphore wrt
    readCount,      \* reader-writer: readCount
    rwMutex,        \* reader-writer: mutex guarding readCount
    queue,          \* reader-writer: queue of waiting actors
    atype,          \* reader-writer: actor.type of a slot ("reader", "writer", "none")
    arrivedBehind,  \* history: readers that arrived while a writer was queued and none inside
    empty,          \* bounded buffer: semaphore empty
    full,           \* bounded buffer: semaphore full
    pcMutex,        \* bounded buffer: semaphore mutex
    buffer,         \* bounded buffer: the slot array, Null or an item
    producers,      \* bounded buffer: the producers array (running producers, in order added)
    consumers,      \* bounded buffer: the consumers array
    producerId,     \* bounded buffer: id counter of producers
    consumerId,     \* bounded buffer: id counter of consumers
    running,        \* bounded buffer: actor.running of every producer and consumer
    speed,          \* simState.speed
    now,            \* timed model: the clock
    timers,         \* timed model: the pending setTimeout of a sleep, [start, delay]
    sleepMs,        \* timed model: the argument ms of a caller's sleep(ms)
    philosopherStates,  \* dining: philosopherStates[p]
    chopstickStates,    \* dining: chopstickStates[c], 0 = free, 1 = taken
    isDpRunning,        \* dining: isDpRunning
    solutionChecked,    \* dining: solutionToggle.checked
    deadlockLog,        \* dining: DEADLOCK DETECTED entries logged since the last
                        \* 'Simulation Started' entry
    loopP,              \* dining: p of the philosopherLogic call a loop is suspended in
    loopUse,            \* dining: useSolution of that call
    customers,          \* barber: customers (counting semaphore)
    barberReady,        \* barber: barberReady
    sbMutex,            \* barber: mutex
    customerQueue,      \* barber: customerQueue (customers outside the shop)
    customerId,         \* barber: id counter of customers
    waitingRoom,        \* barber: waitingRoom
    barberState,        \* barber: barberState, "sleeping" or "working"
    barberChairCustomer,\* barber: barberChairCustomer, NoActor for null
    processes,          \* scheduler: the process table, records [pid, arrival, burst]
    processIdCounter,   \* scheduler: processIdCounter
    isAnimating,        \* scheduler: isAnimating
    results             \* scheduler: results of the last run, NoResults before one

pacingVars == <<isPaused, pauseResolver>>
timeVars == <<speed, now, timers, sleepMs>>
dpVars == <<philosopherStates, chopstickStates, isDpRunning, solutionChecked, deadlockLog,
           loopP, loopUse>>
sbVars == <<customers, barberReady, sbMutex, customerQueue, customerId, waitingRoom,
           barberState, barberChairCustomer>>
schedVars == <<processes, processIdCounter, isAnimating, results>>
rwVars == <<wrt, readCount, rwMutex, queue, atype, arrivedBehind>>
pcVars == <<empty, full, pcMutex, buffer, producers, consumers, producerId, consumerId,
           running>>
vars == <<isPaused, pauseResolver, micro, pc, wrt, readCount, rwMutex, queue, atype,
          arrivedBehind, empty, full, pcMutex, buffer, producers, consumers, producerId,
          consumerId, running, speed, now, timers, sleepMs, philosopherStates,
          chopstickStates, isDpRunning, solutionChecked, deadlockLog, loopP, loopUse,
          customers, barberReady, sbMutex, customerQueue, customerId, waitingRoom,
          barberState, barberChairCustomer,
          processes, processIdCounter, isAnimating, results>>

Null == <<"null">>
NoTimer == [start |-> 0, delay |-> 0]
Idle == <<"idle", "idle">>
Queued == <<"queued", "queued">>

\* Stages at which an actor is suspended on the pause promise.
BlockedStages == {"s_p1", "s_p2", "w_p"}
\* Stages at which an actor is suspended on a setTimeout.
TimerStages == {"s_t", "w_t"}
\* Stages at which the actor's continuation sits in the microtask queue.
ReadyStages == {"s_r1", "s_c1", "s_tf", "s_r2", "s_c2", "s_done",
                "w_r", "w_c", "w_tf", "w_done", "wt_done", "pl_done"}

Range(s) == {s[i] : i \in 1..Len(s)}

\* checkPause(): suspend on a new promise when paused, else return at once.
CheckPause(blockedStage, contStage) == IF isPaused THEN blockedStage ELSE contStage

\* sleep(ms) up to its first await.
SleepCall == CheckPause("s_p1", "s_c1")

\* Mutant: smartWait returns without looking at the condition.
SmartWaitCall_NoCheck(c) == "w_done"

\* smartWait(conditionCheck, ...) up to its first await, or its immediate return.
SmartWaitCall(c) == IF c THEN "w_done" ELSE CheckPause("w_p", "w_c")

\* The condition a smartWait at the given location polls.
Cond(loc) ==
    CASE loc = "r_m1" -> rwMutex > 0
      [] loc = "r_m2" -> rwMutex > 0
      [] loc = "r_wrt" -> wrt > 0
      [] loc = "w_wrt" -> wrt > 0
      [] loc = "p_empty" -> empty > 0
      [] loc = "c_full" -> full > 0
      [] loc = "p_mutex" -> pcMutex > 0
      [] loc = "c_mutex" -> pcMutex > 0
      [] loc = "b_cust" -> customers > 0
      [] loc = "b_mutex" -> sbMutex > 0
      [] loc = "b_promote" -> sbMutex > 0
      [] loc = "k_check" -> sbMutex > 0
      [] OTHER -> FALSE

\* Actor a, running as the head of the microtask queue, reaches its next await
\* at <<loc, st>>: a resolved await re-queues it, a pause promise registers it
\* as the (single) resolver, a timer parks it.
Goto(a, loc, st) ==
    /\ pc' = [pc EXCEPT ![a] = <<loc, st>>]
    /\ micro' = IF st \in ReadyStages THEN Append(Tail(micro), a) ELSE Tail(micro)
    /\ pauseResolver' = IF st \in BlockedStages THEN a ELSE pauseResolver

Running(a) == micro # <<>> /\ Head(micro) = a

\* ------------------------------------------------- pacing and the event loop

\* togglePauseSimulation(): a macrotask; on resume the one stored resolver is
\* called, which queues the continuation of that actor's checkPause.
ResumedStage(st) ==
    CASE st = "s_p1" -> "s_r1"
      [] st = "s_p2" -> "s_r2"
      [] st = "w_p" -> "w_r"

TogglePause ==
    /\ micro = <<>>
    /\ isPaused' = ~isPaused
    /\ IF isPaused /\ pauseResolver # NoActor
       THEN /\ pc' = [pc EXCEPT ![pauseResolver] = <<@[1], ResumedStage(@[2])>>]
            /\ micro' = <<pauseResolver>>
            /\ pauseResolver' = NoActor
       ELSE UNCHANGED <<pc, micro, pauseResolver>>
    /\ UNCHANGED <<schedVars, sbVars, dpVars, timeVars, rwVars, pcVars>>

\* checkPause() resumes after its promise was resolved and returns: the caller's
\* `await checkPause()` continues one job later.
CheckPauseReturn(a) ==
    /\ Running(a)
    /\ pc[a][2] \in {"s_r1", "s_r2", "w_r"}
    /\ Goto(a, pc[a][1], CASE pc[a][2] = "s_r1" -> "s_c1"
                           [] pc[a][2] = "s_r2" -> "s_c2"
                           [] pc[a][2] = "w_r" -> "w_c")
    /\ UNCHANGED <<schedVars, sbVars, dpVars, timeVars, isPaused, rwVars, pcVars>>

\* sleep: after the first checkPause, start the timer.
SleepSetTimeout(a) ==
    /\ Running(a)
    /\ pc[a][2] = "s_c1"
    /\ Goto(a, pc[a][1], "s_t")
    /\ UNCHANGED <<schedVars, sbVars, dpVars, timeVars, isPaused, rwVars, pcVars>>

\* A setTimeout callback: a macrotask that resolves the promise awaited by a.
TimerFires(a) ==
    /\ micro = <<>>
    /\ pc[a][2] \in TimerStages
    /\ pc' = [pc EXCEPT ![a] = <<@[1], IF @[2] = "s_t" THEN "s_tf" ELSE "w_tf">>]
    /\ micro' = <<a>>
    /\ UNCHANGED <<schedVars, sbVars, dpVars, timeVars, isPaused, pauseResolver, rwVars, pcVars>>

\* Mutant: sleep does not check pause after its timer.
SleepAfterTimer_NoCheck(a) ==
    /\ Running(a)
    /\ pc[a][2] = "s_tf"
    /\ Goto(a, pc[a][1], "s_c2")
    /\ UNCHANGED <<schedVars, sbVars, dpVars, timeVars, isPaused, rwVars, pcVars>>

\* sleep: after the timer, check pause again.
SleepAfterTimer(a) ==
    /\ Running(a)
    /\ pc[a][2] = "s_tf"
    /\ Goto(a, pc[a][1], CheckPause("s_p2", "s_c2"))
    /\ UNCHANGED <<schedVars, sbVars, dpVars, timeVars, isPaused, rwVars, pcVars>>

\* sleep returns: the caller's `await sleep(..)` continues one job later.
SleepReturn(a) ==
    /\ Running(a)
    /\ pc[a][2] = "s_c2"
    /\ Goto(a, pc[a][1], "s_done")
    /\ UNCHANGED <<schedVars, sbVars, dpVars, timeVars, isPaused, rwVars, pcVars>>

\* smartWait loop body: after checkPause, start the 50ms poll timer.
SmartWaitSetTimeout(a) ==
    /\ Running(a)
    /\ pc[a][2] = "w_c"
    /\ Goto(a, pc[a][1], "w_t")
    /\ UNCHANGED <<schedVars, sbVars, dpVars, timeVars, isPaused, rwVars, pcVars>>

\* Mutant: the poll loop returns after one poll without rechecking the condition.
SmartWaitRecheck_NoRecheck(a) ==
    /\ Running(a)
    /\ pc[a][2] = "w_tf"
    /\ Goto(a, pc[a][1], "w_done")
    /\ UNCHANGED <<schedVars, sbVars, dpVars, timeVars, isPaused, rwVars, pcVars>>

\* smartWait loop head after a poll: return when the condition holds, else
\* check pause and poll again.
SmartWaitRecheck(a) ==
    /\ Running(a)
    /\ pc[a][2] = "w_tf"
    /\ Goto(a, pc[a][1], SmartWaitCall(Cond(pc[a][1])))
    /\ UNCHANGED <<schedVars, sbVars, dpVars, timeVars, isPaused, rwVars, pcVars>>

\* ------------------------------------------------------------ reader-writer

RECURSIVE LeadingReaders(_, _, _)
\* The first loop of processQueue: readers at the head are dispatched while wrt === 1
\* (readerLogic does not change wrt before its first await).
LeadingReaders(q, w, ty) ==
    IF q # <<>> /\ ty[Head(q)] = "reader" /\ w = 1
    THEN <<Head(q)>> \o LeadingReaders(Tail(q), w, ty)
    ELSE <<>>

\* processQueue(): the actors it dispatches, in order, and the queue it leaves.
processQueue(q, w, rc, ty) ==
    LET rs == LeadingReaders(q, w, ty)
        q1 == SubSeq(q, Len(rs) + 1, Len(q))
        wr == IF q1 # <<>> /\ ty[Head(q1)] = "writer" /\ w = 1 /\ rc = 0
              THEN <<Head(q1)>> ELSE <<>>
    IN  [started |-> rs \o wr, rest |-> SubSeq(q1, Len(wr) + 1, Len(q1))]

\* readerLogic / writerLogic up to their first await (the smartWait call).
StartPc(x, w, m, ty) ==
    IF ty[x] = "reader" THEN <<"r_m1", SmartWaitCall(m > 0)>>
                        ELSE <<"w_wrt", SmartWaitCall(w > 0)>>

\* A call of processQueue on queue q with the semaphore values w, rc, m: every
\* dispatched actor runs synchronously up to its first await. basePc and
\* baseMicro are the actor positions and job queue at the moment of the call.
RunProcessQueue(q, w, rc, m, ty, basePc, baseMicro) ==
    LET r == processQueue(q, w, rc, ty)
        ready == SelectSeq(r.started, LAMBDA x : StartPc(x, w, m, ty)[2] \in ReadyStages)
        blocked == SelectSeq(r.started, LAMBDA x : StartPc(x, w, m, ty)[2] \in BlockedStages)
    IN  /\ queue' = r.rest
        /\ pc' = [x \in Actors |-> IF x \in Range(r.started) THEN StartPc(x, w, m, ty)
                                                            ELSE basePc[x]]
        /\ micro' = baseMicro \o ready
        /\ pauseResolver' = IF blocked = <<>> THEN pauseResolver ELSE blocked[Len(blocked)]

WriterInside == \E x \in RWIds : atype[x] = "writer" /\ pc[x][1] = "w_write"
WriterQueued == \E i \in 1..Len(queue) : atype[queue[i]] = "writer"

\* rw-add-reader click.
AddReader(a) ==
    /\ micro = <<>>
    /\ a \in RWIds /\ pc[a] = Idle
    /\ atype' = [atype EXCEPT ![a] = "reader"]
    /\ arrivedBehind' = IF WriterQueued /\ ~WriterInside
                        THEN arrivedBehind \cup {a} ELSE arrivedBehind
    /\ RunProcessQueue(Append(queue, a), wrt, readCount, rwMutex, atype',
                       [pc EXCEPT ![a] = Queued], micro)
    /\ UNCHANGED <<schedVars, sbVars, dpVars, timeVars, isPaused, wrt, readCount, rwMutex, pcVars>>

\* rw-add-writer click.
AddWriter(a) ==
    /\ micro = <<>>
    /\ a \in RWIds /\ pc[a] = Idle
    /\ atype' = [atype EXCEPT ![a] = "writer"]
    /\ RunProcessQueue(Append(queue, a), wrt, readCount, rwMutex, atype',
                       [pc EXCEPT ![a] = Queued], micro)
    /\ UNCHANGED <<schedVars, sbVars, dpVars, timeVars, isPaused, wrt, readCount, rwMutex, arrivedBehind, pcVars>>

\* readerLogic after smartWait(mutex > 0): mutex--, readCount++, and either wait
\* for wrt (first reader) or mutex++, ENTERED, sleep.
ReaderGotMutex(a) ==
    /\ Running(a)
    /\ pc[a] = <<"r_m1", "w_done">>
    /\ readCount' = readCount + 1
    /\ IF readCount' = 1
       THEN /\ rwMutex' = rwMutex - 1
            /\ Goto(a, "r_wrt", SmartWaitCall(wrt > 0))
       ELSE /\ rwMutex' = (rwMutex - 1) + 1
            /\ Goto(a, "r_read", SleepCall)
    /\ UNCHANGED <<schedVars, sbVars, dpVars, timeVars, isPaused, wrt, queue, atype, arrivedBehind, pcVars>>

\* readerLogic after smartWait(wrt > 0): wrt--, mutex++, ENTERED, sleep.
ReaderGotWrt(a) ==
    /\ Running(a)
    /\ pc[a] = <<"r_wrt", "w_done">>
    /\ wrt' = wrt - 1
    /\ rwMutex' = rwMutex + 1
    /\ Goto(a, "r_read", SleepCall)
    /\ UNCHANGED <<schedVars, sbVars, dpVars, timeVars, isPaused, readCount, queue, atype, arrivedBehind, pcVars>>

\* readerLogic after the read: LEFT, then smartWait(mutex > 0).
ReaderLeft(a) ==
    /\ Running(a)
    /\ pc[a] = <<"r_read", "s_done">>
    /\ Goto(a, "r_m2", SmartWaitCall(rwMutex > 0))
    /\ UNCHANGED <<schedVars, sbVars, dpVars, timeVars, isPaused, rwVars, pcVars>>

\* readerLogic after the second smartWait(mutex > 0): mutex--, readCount--,
\* wrt++ for the last reader, mutex++, processQueue().
ReaderExit(a) ==
    /\ Running(a)
    /\ pc[a] = <<"r_m2", "w_done">>
    /\ readCount' = readCount - 1
    /\ wrt' = IF readCount' = 0 THEN wrt + 1 ELSE wrt
    /\ rwMutex' = (rwMutex - 1) + 1
    /\ atype' = [atype EXCEPT ![a] = "none"]
    /\ arrivedBehind' = arrivedBehind \ {a}
    /\ RunProcessQueue(queue, wrt', readCount', rwMutex', atype',
                       [pc EXCEPT ![a] = Idle], Tail(micro))
    /\ UNCHANGED <<schedVars, sbVars, dpVars, timeVars, isPaused, pcVars>>

\* Mutant: the writer enters without taking wrt.
WriterGotWrt_NoAcquire(a) ==
    /\ Running(a)
    /\ pc[a] = <<"w_wrt", "w_done">>
    /\ Goto(a, "w_write", SleepCall)
    /\ UNCHANGED <<schedVars, sbVars, dpVars, timeVars, isPaused, wrt, readCount, rwMutex, queue, atype, arrivedBehind, pcVars>>

\* writerLogic after smartWait(wrt > 0): wrt--, ENTERED, sleep.
WriterGotWrt(a) ==
    /\ Running(a)
    /\ pc[a] = <<"w_wrt", "w_done">>
    /\ wrt' = wrt - 1
    /\ Goto(a, "w_write", SleepCall)
    /\ UNCHANGED <<schedVars, sbVars, dpVars, timeVars, isPaused, readCount, rwMutex, queue, atype, arrivedBehind, pcVars>>

\* Mutant: the writer leaves without calling processQueue().
WriterExit_NoDispatch(a) ==
    /\ Running(a)
    /\ pc[a] = <<"w_write", "s_done">>
    /\ wrt' = wrt + 1
    /\ atype' = [atype EXCEPT ![a] = "none"]
    /\ pc' = [pc EXCEPT ![a] = Idle]
    /\ micro' = Tail(micro)
    /\ UNCHANGED <<schedVars, sbVars, dpVars, timeVars, isPaused, pauseResolver, queue, readCount, rwMutex,
                   arrivedBehind, pcVars>>

\* writerLogic after the write: LEFT, wrt++, processQueue().
WriterExit(a) ==
    /\ Running(a)
    /\ pc[a] = <<"w_write", "s_done">>
    /\ wrt' = wrt + 1
    /\ atype' = [atype EXCEPT ![a] = "none"]
    /\ RunProcessQueue(queue, wrt', readCount, rwMutex, atype',
                       [pc EXCEPT ![a] = Idle], Tail(micro))
    /\ UNCHANGED <<schedVars, sbVars, dpVars, timeVars, isPaused, readCount, rwMutex, arrivedBehind, pcVars>>

\* ----------------------------------------------------------- bounded buffer

\* buffer.indexOf(null): the lowest free slot, 0 when there is none (-1 in the code).
IndexOfNull(b) ==
    IF \E i \in 1..BUFFER_SIZE : b[i] = Null
    THEN CHOOSE i \in 1..BUFFER_SIZE :
            b[i] = Null /\ \A j \in 1..BUFFER_SIZE : b[j] = Null => i <= j
    ELSE 0

\* Mutant: the consumer takes the lowest occupied slot (first in, first out).
LastFilled_First(b) ==
    IF \E i \in 1..BUFFER_SIZE : b[i] # Null
    THEN CHOOSE i \in 1..BUFFER_SIZE :
            b[i] # Null /\ \A j \in 1..BUFFER_SIZE : b[j] # Null => i <= j
    ELSE 0

\* buffer.map(..).filter(..).pop(): the highest occupied slot, 0 when there is none
\* (undefined in the code, for which the assignment leaves the array as it is).
LastFilled(b) ==
    IF \E i \in 1..BUFFER_SIZE : b[i] # Null
    THEN CHOOSE i \in 1..BUFFER_SIZE :
            b[i] # Null /\ \A j \in 1..BUFFER_SIZE : b[j] # Null => j <= i
    ELSE 0

\* The actor function returns (its loop is left at the given location).
Finish(a, loc) ==
    /\ pc' = [pc EXCEPT ![a] = <<loc, "end">>]
    /\ micro' = Tail(micro)
    /\ UNCHANGED pauseResolver

\* A click handler starts actor a: it runs up to the first await of its sleep.
StartActor(a, loc) ==
    /\ pc' = [pc EXCEPT ![a] = <<loc, SleepCall>>]
    /\ micro' = IF SleepCall \in ReadyStages THEN <<a>> ELSE <<>>
    /\ pauseResolver' = IF SleepCall \in BlockedStages THEN a ELSE pauseResolver

\* The producers and consumers that have been added and have not returned.
PresentActors == {a \in PCIds : pc[a] # Idle /\ pc[a][2] # "end"}

\* pc-add-producer click.
AddProducer ==
    /\ micro = <<>>
    /\ producerId + consumerId < MaxPCActors + 1
    /\ Cardinality(PresentActors) < MaxPCActors
    /\ producerId' = producerId + 1
    /\ LET a == <<"P", producerId'>>
       IN  /\ running' = [running EXCEPT ![a] = TRUE]
           /\ producers' = Append(producers, a)
           /\ StartActor(a, "p_sleep")
    /\ UNCHANGED <<schedVars, sbVars, dpVars, timeVars, isPaused, rwVars, empty, full, pcMutex, buffer, consumers, consumerId>>

\* pc-add-consumer click.
AddConsumer ==
    /\ micro = <<>>
    /\ producerId + consumerId < MaxPCActors + 1
    /\ Cardinality(PresentActors) < MaxPCActors
    /\ consumerId' = consumerId + 1
    /\ LET a == <<"C", consumerId'>>
       IN  /\ running' = [running EXCEPT ![a] = TRUE]
           /\ consumers' = Append(consumers, a)
           /\ StartActor(a, "c_sleep")
    /\ UNCHANGED <<schedVars, sbVars, dpVars, timeVars, isPaused, rwVars, empty, full, pcMutex, buffer, producers, producerId>>

\* pc-remove-producer click: pop the last producer and clear its running flag.
RemoveProducer ==
    /\ micro = <<>>
    /\ producers # <<>>
    /\ running' = [running EXCEPT ![producers[Len(producers)]] = FALSE]
    /\ producers' = SubSeq(producers, 1, Len(producers) - 1)
    /\ UNCHANGED <<schedVars, sbVars, dpVars, timeVars, isPaused, pauseResolver, micro, pc, rwVars, empty, full, pcMutex, buffer,
                   consumers, producerId, consumerId>>

\* pc-remove-consumer click.
RemoveConsumer ==
    /\ micro = <<>>
    /\ consumers # <<>>
    /\ running' = [running EXCEPT ![consumers[Len(consumers)]] = FALSE]
    /\ consumers' = SubSeq(consumers, 1, Len(consumers) - 1)
    /\ UNCHANGED <<schedVars, sbVars, dpVars, timeVars, isPaused, pauseResolver, micro, pc, rwVars, empty, full, pcMutex, buffer,
                   producers, producerId, consumerId>>

\* producerLogic after its sleep: break when removed, else wait('empty').
ProducerAwake(a) ==
    /\ Running(a)
    /\ pc[a] = <<"p_sleep", "s_done">>
    /\ IF ~running[a] THEN Finish(a, "p_sleep")
                      ELSE Goto(a, "p_empty", SmartWaitCall(empty > 0))
    /\ UNCHANGED <<schedVars, sbVars, dpVars, timeVars, isPaused, rwVars, pcVars>>

\* wait('empty') after its smartWait: empty--, and wait returns.
ProducerGotEmpty(a) ==
    /\ Running(a)
    /\ pc[a] = <<"p_empty", "w_done">>
    /\ empty' = empty - 1
    /\ Goto(a, "p_empty", "wt_done")
    /\ UNCHANGED <<schedVars, sbVars, dpVars, timeVars, isPaused, rwVars, full, pcMutex, buffer, producers, consumers,
                   producerId, consumerId, running>>

\* Mutant: the producer does not look at its running flag after wait('empty').
ProducerAfterEmpty_NoCheck(a) ==
    /\ Running(a)
    /\ pc[a] = <<"p_empty", "wt_done">>
    /\ Goto(a, "p_mutex", SmartWaitCall(pcMutex > 0))
    /\ UNCHANGED <<schedVars, sbVars, dpVars, timeVars, isPaused, rwVars, pcVars>>

\* producerLogic after wait('empty'): break when removed, else wait('mutex').
ProducerAfterEmpty(a) ==
    /\ Running(a)
    /\ pc[a] = <<"p_empty", "wt_done">>
    /\ IF ~running[a] THEN Finish(a, "p_empty")
                      ELSE Goto(a, "p_mutex", SmartWaitCall(pcMutex > 0))
    /\ UNCHANGED <<schedVars, sbVars, dpVars, timeVars, isPaused, rwVars, pcVars>>

\* wait('mutex') after its smartWait: mutex--, and wait returns.
ProducerGotMutex(a) ==
    /\ Running(a)
    /\ pc[a] = <<"p_mutex", "w_done">>
    /\ pcMutex' = pcMutex - 1
    /\ Goto(a, "p_mutex", "wt_done")
    /\ UNCHANGED <<schedVars, sbVars, dpVars, timeVars, isPaused, rwVars, empty, full, buffer, producers, consumers,
                   producerId, consumerId, running>>

\* producerLogic after wait('mutex'): break when removed, else write one item into
\* the first free slot and sleep(500).
ProducerEnter(a) ==
    /\ Running(a)
    /\ pc[a] = <<"p_mutex", "wt_done">>
    /\ IF ~running[a]
       THEN Finish(a, "p_mutex") /\ UNCHANGED buffer
       ELSE /\ buffer' = IF IndexOfNull(buffer) # 0
                         THEN [buffer EXCEPT ![IndexOfNull(buffer)] = <<"Item", a[2]>>]
                         ELSE buffer
            /\ Goto(a, "p_cs", SleepCall)
    /\ UNCHANGED <<schedVars, sbVars, dpVars, timeVars, isPaused, rwVars, empty, full, pcMutex, producers, consumers,
                   producerId, consumerId, running>>

\* Mutant: the producer signals empty instead of full.
ProducerLeave_SignalsEmpty(a) ==
    /\ Running(a)
    /\ pc[a] = <<"p_cs", "s_done">>
    /\ pcMutex' = pcMutex + 1
    /\ empty' = empty + 1
    /\ IF running[a] THEN Goto(a, "p_sleep", SleepCall) ELSE Finish(a, "p_top")
    /\ UNCHANGED <<schedVars, sbVars, dpVars, timeVars, isPaused, rwVars, full, buffer, producers, consumers,
                   producerId, consumerId, running>>

\* producerLogic after the critical section: signal('mutex'), signal('full'), and the
\* loop condition: sleep again, or return when removed.
ProducerLeave(a) ==
    /\ Running(a)
    /\ pc[a] = <<"p_cs", "s_done">>
    /\ pcMutex' = pcMutex + 1
    /\ full' = full + 1
    /\ IF running[a] THEN Goto(a, "p_sleep", SleepCall) ELSE Finish(a, "p_top")
    /\ UNCHANGED <<schedVars, sbVars, dpVars, timeVars, isPaused, rwVars, empty, buffer, producers, consumers,
                   producerId, consumerId, running>>

\* consumerLogic after its sleep: break when removed, else wait('full').
ConsumerAwake(a) ==
    /\ Running(a)
    /\ pc[a] = <<"c_sleep", "s_done">>
    /\ IF ~running[a] THEN Finish(a, "c_sleep")
                      ELSE Goto(a, "c_full", SmartWaitCall(full > 0))
    /\ UNCHANGED <<schedVars, sbVars, dpVars, timeVars, isPaused, rwVars, pcVars>>

\* wait('full') after its smartWait: full--, and wait returns.
ConsumerGotFull(a) ==
    /\ Running(a)
    /\ pc[a] = <<"c_full", "w_done">>
    /\ full' = full - 1
    /\ Goto(a, "c_full", "wt_done")
    /\ UNCHANGED <<schedVars, sbVars, dpVars, timeVars, isPaused, rwVars, empty, pcMutex, buffer, producers, consumers,
                   producerId, consumerId, running>>

\* consumerLogic after wait('full'): break when removed, else wait('mutex').
ConsumerAfterFull(a) ==
    /\ Running(a)
    /\ pc[a] = <<"c_full", "wt_done">>
    /\ IF ~running[a] THEN Finish(a, "c_full")
                      ELSE Goto(a, "c_mutex", SmartWaitCall(pcMutex > 0))
    /\ UNCHANGED <<schedVars, sbVars, dpVars, timeVars, isPaused, rwVars, pcVars>>

\* wait('mutex') after its smartWait: mutex--, and wait returns.
ConsumerGotMutex(a) ==
    /\ Running(a)
    /\ pc[a] = <<"c_mutex", "w_done">>
    /\ pcMutex' = pcMutex - 1
    /\ Goto(a, "c_mutex", "wt_done")
    /\ UNCHANGED <<schedVars, sbVars, dpVars, timeVars, isPaused, rwVars, empty, full, buffer, producers, consumers,
                   producerId, consumerId, running>>

\* consumerLogic after wait('mutex'): break when removed, else clear the last
\* occupied slot and sleep(500).
ConsumerEnter(a) ==
    /\ Running(a)
    /\ pc[a] = <<"c_mutex", "wt_done">>
    /\ IF ~running[a]
       THEN Finish(a, "c_mutex") /\ UNCHANGED buffer
       ELSE /\ buffer' = IF LastFilled(buffer) # 0
                         THEN [buffer EXCEPT ![LastFilled(buffer)] = Null]
                         ELSE buffer
            /\ Goto(a, "c_cs", SleepCall)
    /\ UNCHANGED <<schedVars, sbVars, dpVars, timeVars, isPaused, rwVars, empty, full, pcMutex, producers, consumers,
                   producerId, consumerId, running>>

\* consumerLogic after the critical section: signal('mutex'), signal('empty'), and
\* the loop condition.
ConsumerLeave(a) ==
    /\ Running(a)
    /\ pc[a] = <<"c_cs", "s_done">>
    /\ pcMutex' = pcMutex + 1
    /\ empty' = empty + 1
    /\ IF running[a] THEN Goto(a, "c_sleep", SleepCall) ELSE Finish(a, "c_top")
    /\ UNCHANGED <<schedVars, sbVars, dpVars, timeVars, isPaused, rwVars, full, buffer, producers, consumers,
                   producerId, consumerId, running>>

\* The proc of a Gantt block that stands for idle time (pid 'IDLE' in the code).
IDLE == 0

\* No results are displayed.
NoResults == [algorithm |-> "none", quantum |-> 0, gantt |-> <<>>, processStats |-> <<>>]

\* The processes addDefaultProcesses() puts in the table at load: P1..P4.
defaultData ==
    << [pid |-> 1, arrival |-> 0, burst |-> 8],
       [pid |-> 2, arrival |-> 1, burst |-> 4],
       [pid |-> 3, arrival |-> 2, burst |-> 9],
       [pid |-> 4, arrival |-> 3, burst |-> 5] >>

\* ------------------------------------------------------------ specifications

Init ==
    /\ isPaused = FALSE
    /\ pauseResolver = NoActor
    /\ micro = <<>>
    /\ pc = [a \in Actors |-> IF a = Barber THEN <<"b_cust", "w_t">> ELSE Idle]
    /\ wrt = 1
    /\ readCount = 0
    /\ rwMutex = 1
    /\ queue = <<>>
    /\ atype = [a \in RWIds |-> "none"]
    /\ arrivedBehind = {}
    /\ empty = BUFFER_SIZE
    /\ full = 0
    /\ pcMutex = 1
    /\ buffer = [i \in 1..BUFFER_SIZE |-> Null]
    /\ producers = <<>>
    /\ consumers = <<>>
    /\ producerId = 0
    /\ consumerId = 0
    /\ running = [a \in PCIds |-> FALSE]
    /\ speed = 1
    /\ now = 0
    /\ timers = [a \in SleepIds |-> NoTimer]
    /\ sleepMs = [a \in SleepIds |-> 0]
    /\ philosopherStates = [p \in Phils |-> THINKING]
    /\ chopstickStates = [c \in Phils |-> 0]
    /\ isDpRunning = FALSE
    /\ solutionChecked = FALSE
    /\ deadlockLog = 0
    /\ loopP = [l \in LoopIds |-> 0]
    /\ loopUse = [l \in LoopIds |-> FALSE]
    /\ customers = 0
    /\ barberReady = 0
    /\ sbMutex = 1
    /\ customerQueue = <<>>
    /\ customerId = 0
    /\ waitingRoom = <<>>
    /\ barberState = "sleeping"
    /\ barberChairCustomer = NoActor
    /\ processes = defaultData
    /\ processIdCounter = Len(defaultData) + 1
    /\ isAnimating = FALSE
    /\ results = NoResults

PacingStep(a) ==
    \/ CheckPauseReturn(a)
    \/ SleepSetTimeout(a)
    \/ TimerFires(a)
    \/ SleepAfterTimer(a)
    \/ SleepReturn(a)

\* The smartWait poll loop (entered only when the condition is false at the call).
PollStep(a) ==
    \/ SmartWaitSetTimeout(a)
    \/ SmartWaitRecheck(a)

RWStep(a) ==
    \/ AddReader(a)
    \/ AddWriter(a)
    \/ ReaderGotMutex(a)
    \/ ReaderGotWrt(a)
    \/ ReaderLeft(a)
    \/ ReaderExit(a)
    \/ WriterGotWrt(a)
    \/ WriterExit(a)

NextRW ==
    \/ TogglePause
    \/ \E a \in RWIds : PacingStep(a)
    \/ \E a \in RWIds : RWStep(a)

SpecRW == Init /\ [][NextRW]_vars

PCStep(a) ==
    \/ ProducerAwake(a)
    \/ ProducerGotEmpty(a)
    \/ ProducerAfterEmpty(a)
    \/ ProducerGotMutex(a)
    \/ ProducerEnter(a)
    \/ ProducerLeave(a)
    \/ ConsumerAwake(a)
    \/ ConsumerGotFull(a)
    \/ ConsumerAfterFull(a)
    \/ ConsumerGotMutex(a)
    \/ ConsumerEnter(a)
    \/ ConsumerLeave(a)

NextPC ==
    \/ TogglePause
    \/ AddProducer
    \/ AddConsumer
    \/ RemoveProducer
    \/ RemoveConsumer
    \/ \E a \in PCIds : PacingStep(a)
    \/ \E a \in PCIds : PollStep(a)
    \/ \E a \in PCIds : PCStep(a)

SpecPC == Init /\ [][NextPC]_vars

\* ------------------------------------------------------ pacing with a clock
\* The timed model of sleep: a clock `now`, the speed multiplier (1..MaxSpeed) and
\* the timer a sleep registers. The other models abstract from time: there a
\* pending timer may fire in any macrotask.

Speeds == 1..MaxSpeed

\* Mutant: a speed change rescales the delay of every pending timer.
SetSimulationSpeed_Rescales(s) ==
    /\ micro = <<>>
    /\ speed' = s
    /\ timers' = [a \in SleepIds |->
                    IF pc[a][2] = "s_t" THEN [timers[a] EXCEPT !.delay = sleepMs[a] \div s]
                                        ELSE timers[a]]
    /\ UNCHANGED <<schedVars, sbVars, dpVars, now, sleepMs, pacingVars, micro, pc, rwVars, pcVars>>

\* setSimulationSpeed(speed), called by the slider's input handler.
SetSimulationSpeed(s) ==
    /\ micro = <<>>
    /\ speed' = s
    /\ UNCHANGED <<schedVars, sbVars, dpVars, now, timers, sleepMs, pacingVars, micro, pc, rwVars, pcVars>>

\* Time passes between two tasks.
TimePasses ==
    /\ micro = <<>>
    /\ now < MaxTime
    /\ now' = now + 1
    /\ UNCHANGED <<schedVars, sbVars, dpVars, speed, timers, sleepMs, pacingVars, micro, pc, rwVars, pcVars>>

\* A task calls sleep(ms): it runs up to the first await of sleep.
CallSleep(a, ms) ==
    /\ micro = <<>>
    /\ pc[a] = Idle
    /\ sleepMs' = [sleepMs EXCEPT ![a] = ms]
    /\ StartActor(a, "delay")
    /\ UNCHANGED <<schedVars, sbVars, dpVars, speed, now, timers, isPaused, rwVars, pcVars>>

\* sleep after the first checkPause: adjustedTime = ms / simState.speed is computed
\* and the timer registered with it (setTimeout truncates the delay to an integer).
SleepSetTimeoutAt(a) ==
    /\ Running(a)
    /\ pc[a] = <<"delay", "s_c1">>
    /\ timers' = [timers EXCEPT ![a] = [start |-> now, delay |-> sleepMs[a] \div speed]]
    /\ Goto(a, "delay", "s_t")
    /\ UNCHANGED <<schedVars, sbVars, dpVars, speed, now, sleepMs, isPaused, rwVars, pcVars>>

\* The timer callback runs, not before the registered delay has elapsed.
TimerFiresAt(a) ==
    /\ micro = <<>>
    /\ pc[a] = <<"delay", "s_t">>
    /\ now >= timers[a].start + timers[a].delay
    /\ pc' = [pc EXCEPT ![a] = <<"delay", "s_tf">>]
    /\ micro' = <<a>>
    /\ timers' = [timers EXCEPT ![a] = NoTimer]
    /\ UNCHANGED <<schedVars, sbVars, dpVars, speed, now, sleepMs, isPaused, pauseResolver, rwVars, pcVars>>

\* The caller continues after `await sleep(ms)`.
SleepCallerResumes(a) ==
    /\ Running(a)
    /\ pc[a] = <<"delay", "s_done">>
    /\ pc' = [pc EXCEPT ![a] = Idle]
    /\ micro' = Tail(micro)
    /\ sleepMs' = [sleepMs EXCEPT ![a] = 0]
    /\ UNCHANGED <<schedVars, sbVars, dpVars, speed, now, timers, pacingVars, rwVars, pcVars>>

TimedStep(a) ==
    \/ \E ms \in 1..MaxMs : CallSleep(a, ms)
    \/ CheckPauseReturn(a)
    \/ SleepSetTimeoutAt(a)
    \/ TimerFiresAt(a)
    \/ SleepAfterTimer(a)
    \/ SleepReturn(a)
    \/ SleepCallerResumes(a)

NextTimed ==
    \/ TogglePause
    \/ TimePasses
    \/ \E s \in Speeds : SetSimulationSpeed(s)
    \/ \E a \in SleepIds : TimedStep(a)

SpecTimed == Init /\ [][NextTimed]_vars

\* ------------------------------------------------------ dining philosophers

Left(p) == p
Right(p) == (p + 1) % NumPhil

\* firstStick and secondStick of philosopherLogic(p): with the solution on, the
\* last philosopher picks its right chopstick first.
FirstStick(p, use) == IF use /\ p = NumPhil - 1 THEN Right(p) ELSE Left(p)
SecondStick(p, use) == IF use /\ p = NumPhil - 1 THEN Left(p) ELSE Right(p)

AllThinking == [p \in Phils |-> THINKING]
AllFree == [c \in Phils |-> 0]

\* The condition of checkDeadlock.
Deadlocked ==
    /\ \A p \in Phils : philosopherStates[p] = HUNGRY
    /\ Cardinality({c \in Phils : chopstickStates[c] = 1}) = NumPhil

\* Loop l reaches its next await at <<loc, st>>; rest is the job queue behind it.
Await(l, loc, st, rest) ==
    /\ pc' = [pc EXCEPT ![l] = <<loc, st>>]
    /\ micro' = IF st \in ReadyStages THEN Append(rest, l) ELSE rest
    /\ pauseResolver' = IF st \in BlockedStages THEN l ELSE pauseResolver

\* `await philosopherLogic(p)` called by loop l on the states ps, cs: the call runs
\* up to its return (Thinking -> Hungry, Eating -> Thinking, or Hungry with the
\* first chopstick taken) or up to `await sleep(500)` with the first chopstick
\* picked up.
PhilosopherLogic(l, p, ps, cs, rest) ==
    LET first == FirstStick(p, solutionChecked)
    IN  IF ps[p] = HUNGRY /\ cs[first] = 0
        THEN /\ philosopherStates' = ps
             /\ chopstickStates' = [cs EXCEPT ![first] = 1]
             /\ loopP' = [loopP EXCEPT ![l] = p]
             /\ loopUse' = [loopUse EXCEPT ![l] = solutionChecked]
             /\ Await(l, "dp_pickup", SleepCall, rest)
        ELSE /\ philosopherStates' =
                    CASE ps[p] = THINKING -> [ps EXCEPT ![p] = HUNGRY]
                      [] ps[p] = EATING -> [ps EXCEPT ![p] = THINKING]
                      [] OTHER -> ps
             /\ chopstickStates' =
                    IF ps[p] = EATING THEN [cs EXCEPT ![Left(p)] = 0, ![Right(p)] = 0]
                                      ELSE cs
             /\ UNCHANGED <<loopP, loopUse>>
             /\ Await(l, "dp_tick", "pl_done", rest)

\* dp-start click: returns when a loop is running, else resets the table and runs
\* the first iteration up to its first await. The new loop takes the lowest free slot.
DpStart(l, p) ==
    /\ micro = <<>>
    /\ ~isDpRunning
    /\ pc[l] = Idle
    /\ \A k \in LoopIds : pc[k] = Idle => l[2] <= k[2]
    /\ isDpRunning' = TRUE
    /\ deadlockLog' = 0
    /\ PhilosopherLogic(l, p, AllThinking, AllFree, micro)
    /\ UNCHANGED <<schedVars, sbVars, timeVars, isPaused, solutionChecked, rwVars, pcVars>>

\* stopSim(), as the dp-stop click handler.
DpStop ==
    /\ micro = <<>>
    /\ isDpRunning' = FALSE
    /\ UNCHANGED <<schedVars, sbVars, timeVars, pacingVars, micro, pc, philosopherStates, chopstickStates,
                   solutionChecked, deadlockLog, loopP, loopUse, rwVars, pcVars>>

\* Mutant: the change handler neither stops the loop nor resets the table.
ToggleSolution_NoReset ==
    /\ micro = <<>>
    /\ solutionChecked' = ~solutionChecked
    /\ UNCHANGED <<schedVars, sbVars, timeVars, pacingVars, micro, pc, isDpRunning, philosopherStates,
                   chopstickStates, deadlockLog, loopP, loopUse, rwVars, pcVars>>

\* The change handler of the solution toggle: stopSim() and reset of the table.
ToggleSolution ==
    /\ micro = <<>>
    /\ solutionChecked' = ~solutionChecked
    /\ isDpRunning' = FALSE
    /\ philosopherStates' = AllThinking
    /\ chopstickStates' = AllFree
    /\ UNCHANGED <<schedVars, sbVars, timeVars, pacingVars, micro, pc, deadlockLog, loopP, loopUse,
                   rwVars, pcVars>>

\* philosopherLogic after `await sleep(500)`: take the second chopstick and eat, or
\* keep the first chopstick (solution off), or put it down (solution on).
PhilosopherAfterSleep(l) ==
    /\ Running(l)
    /\ pc[l] = <<"dp_pickup", "s_done">>
    /\ LET p == loopP[l]
           first == FirstStick(p, loopUse[l])
           second == SecondStick(p, loopUse[l])
       IN  IF chopstickStates[second] = 0
           THEN /\ chopstickStates' = [chopstickStates EXCEPT ![second] = 1]
                /\ philosopherStates' = [philosopherStates EXCEPT ![p] = EATING]
           ELSE /\ chopstickStates' = IF loopUse[l]
                                      THEN [chopstickStates EXCEPT ![first] = 0]
                                      ELSE chopstickStates
                /\ UNCHANGED philosopherStates
    /\ loopP' = [loopP EXCEPT ![l] = 0]
    /\ loopUse' = [loopUse EXCEPT ![l] = FALSE]
    /\ Goto(l, "dp_tick", "pl_done")
    /\ UNCHANGED <<schedVars, sbVars, timeVars, isPaused, isDpRunning, solutionChecked, deadlockLog,
                   rwVars, pcVars>>

\* Mutant: the loop goes on to sleep(1000) without calling checkDeadlock.
LoopAfterLogic_SkipCheck(l) ==
    /\ Running(l)
    /\ pc[l] = <<"dp_tick", "pl_done">>
    /\ Goto(l, "dp_s1000", SleepCall)
    /\ UNCHANGED <<schedVars, sbVars, timeVars, isPaused, dpVars, rwVars, pcVars>>

\* The loop after `await philosopherLogic(p)`: ui.update and `await sleep(50)`.
LoopAfterLogic(l) ==
    /\ Running(l)
    /\ pc[l] = <<"dp_tick", "pl_done">>
    /\ Goto(l, "dp_s50", SleepCall)
    /\ UNCHANGED <<schedVars, sbVars, timeVars, isPaused, dpVars, rwVars, pcVars>>

\* Mutant: the detector looks at the philosophers only.
CheckDeadlock_HungryOnly(l) ==
    /\ Running(l)
    /\ pc[l] = <<"dp_s50", "s_done">>
    /\ IF \A p \in Phils : philosopherStates[p] = HUNGRY
       THEN /\ deadlockLog' = deadlockLog + 1
            /\ isDpRunning' = FALSE
       ELSE UNCHANGED <<deadlockLog, isDpRunning>>
    /\ Goto(l, "dp_s1000", SleepCall)
    /\ UNCHANGED <<schedVars, sbVars, timeVars, isPaused, philosopherStates, chopstickStates, solutionChecked,
                   loopP, loopUse, rwVars, pcVars>>

\* The loop after `await sleep(50)`: checkDeadlock() (report and stopSim() when all
\* are hungry and all chopsticks taken), then `await sleep(1000)`.
CheckDeadlock(l) ==
    /\ Running(l)
    /\ pc[l] = <<"dp_s50", "s_done">>
    /\ IF Deadlocked
       THEN /\ deadlockLog' = deadlockLog + 1
            /\ isDpRunning' = FALSE
       ELSE UNCHANGED <<deadlockLog, isDpRunning>>
    /\ Goto(l, "dp_s1000", SleepCall)
    /\ UNCHANGED <<schedVars, sbVars, timeVars, isPaused, philosopherStates, chopstickStates, solutionChecked,
                   loopP, loopUse, rwVars, pcVars>>

\* The loop after `await sleep(1000)` with isDpRunning true: the next iteration
\* with a random philosopher p.
LoopIterate(l, p) ==
    /\ Running(l)
    /\ pc[l] = <<"dp_s1000", "s_done">>
    /\ isDpRunning
    /\ PhilosopherLogic(l, p, philosopherStates, chopstickStates, Tail(micro))
    /\ UNCHANGED <<schedVars, sbVars, timeVars, isPaused, isDpRunning, solutionChecked, deadlockLog,
                   rwVars, pcVars>>

\* The loop after `await sleep(1000)` with isDpRunning false: it ends.
LoopExit(l) ==
    /\ Running(l)
    /\ pc[l] = <<"dp_s1000", "s_done">>
    /\ ~isDpRunning
    /\ isDpRunning' = FALSE
    /\ pc' = [pc EXCEPT ![l] = Idle]
    /\ micro' = Tail(micro)
    /\ UNCHANGED <<schedVars, sbVars, timeVars, pacingVars, philosopherStates, chopstickStates,
                   solutionChecked, deadlockLog, loopP, loopUse, rwVars, pcVars>>

\* A sleep of a loop, the simulation never being paused.
LoopSleepStep(l) ==
    \/ SleepSetTimeout(l)
    \/ TimerFires(l)
    \/ SleepAfterTimer(l)
    \/ SleepReturn(l)

DPStep(l) ==
    \/ \E p \in Phils : DpStart(l, p)
    \/ PhilosopherAfterSleep(l)
    \/ LoopAfterLogic(l)
    \/ CheckDeadlock(l)
    \/ \E p \in Phils : LoopIterate(l, p)
    \/ LoopExit(l)

NextDP ==
    \/ DpStop
    \/ ToggleSolution
    \/ \E l \in LoopIds : LoopSleepStep(l)
    \/ \E l \in LoopIds : DPStep(l)

SpecDP == Init /\ [][NextDP]_vars

\* ---------------------------------------------------------- sleeping barber

\* The waiting room after `waitingRoom.push(c)`.
Seat(room, c) == Append(room, c)

\* customerQueue without customer c (findIndex and splice).
Without(q, c) == SelectSeq(q, LAMBDA x : x # c)

\* The top of the barber's loop: barberState = 'sleeping' when no customer is
\* counted, then smartWait(customers > 0).
BarberLoopTop(n) ==
    /\ barberState' = IF n = 0 THEN "sleeping" ELSE barberState
    /\ Goto(Barber, "b_cust", SmartWaitCall(n > 0))

\* barberLogic after smartWait(customers > 0): 'working', smartWait(mutex > 0).
BarberWakes ==
    /\ Running(Barber)
    /\ pc[Barber] = <<"b_cust", "w_done">>
    /\ barberState' = "working"
    /\ Goto(Barber, "b_mutex", SmartWaitCall(sbMutex > 0))
    /\ UNCHANGED <<schedVars, timeVars, dpVars, isPaused, rwVars, pcVars, customers, barberReady, sbMutex,
                   customerQueue, customerId, waitingRoom, barberChairCustomer>>

\* Mutant: the barber does not release the mutex after taking a customer.
BarberTakesCustomer_KeepsMutex ==
    /\ Running(Barber)
    /\ pc[Barber] = <<"b_mutex", "w_done">>
    /\ sbMutex' = sbMutex - 1
    /\ customers' = customers - 1
    /\ barberReady' = 1
    /\ IF waitingRoom = <<>>
       THEN /\ barberChairCustomer' = Undefined
            /\ UNCHANGED waitingRoom
            /\ Finish(Barber, "b_cut")
       ELSE /\ barberChairCustomer' = Head(waitingRoom)
            /\ waitingRoom' = Tail(waitingRoom)
            /\ Goto(Barber, "b_cut", SleepCall)
    /\ UNCHANGED <<schedVars, timeVars, dpVars, isPaused, rwVars, pcVars, customerQueue, customerId,
                   barberState>>

\* barberLogic after smartWait(mutex > 0): mutex--, customers--, barberReady = 1,
\* mutex++, then barberChairCustomer = waitingRoom.shift() and sleep(3000..5000).
\* With an empty waiting room shift() gives undefined and reading its id throws:
\* barberLogic ends.
BarberTakesCustomer ==
    /\ Running(Barber)
    /\ pc[Barber] = <<"b_mutex", "w_done">>
    /\ sbMutex' = (sbMutex - 1) + 1
    /\ customers' = customers - 1
    /\ barberReady' = 1
    /\ IF waitingRoom = <<>>
       THEN /\ barberChairCustomer' = Undefined
            /\ UNCHANGED waitingRoom
            /\ Finish(Barber, "b_cut")
       ELSE /\ barberChairCustomer' = Head(waitingRoom)
            /\ waitingRoom' = Tail(waitingRoom)
            /\ Goto(Barber, "b_cut", SleepCall)
    /\ UNCHANGED <<schedVars, timeVars, dpVars, isPaused, rwVars, pcVars, customerQueue, customerId,
                   barberState>>

\* barberLogic after the haircut: the chair is cleared, barberReady = 0, and either
\* smartWait(mutex > 0) for the promotion or the top of the loop.
BarberFinishes ==
    /\ Running(Barber)
    /\ pc[Barber] = <<"b_cut", "s_done">>
    /\ barberChairCustomer' = NoActor
    /\ barberReady' = 0
    /\ IF customerQueue # <<>>
       THEN /\ Goto(Barber, "b_promote", SmartWaitCall(sbMutex > 0))
            /\ UNCHANGED barberState
       ELSE BarberLoopTop(customers)
    /\ UNCHANGED <<schedVars, timeVars, dpVars, isPaused, rwVars, pcVars, customers, sbMutex,
                   customerQueue, customerId, waitingRoom>>

\* Mutant: the promotion releases the mutex twice.
BarberPromotes_ReleasesTwice ==
    /\ Running(Barber)
    /\ pc[Barber] = <<"b_promote", "w_done">>
    /\ sbMutex' = (sbMutex - 1) + 2
    /\ IF Len(waitingRoom) < MAX_CHAIRS /\ customerQueue # <<>>
       THEN /\ waitingRoom' = Seat(waitingRoom, Head(customerQueue))
            /\ customerQueue' = Tail(customerQueue)
       ELSE UNCHANGED <<waitingRoom, customerQueue>>
    /\ BarberLoopTop(customers)
    /\ UNCHANGED <<schedVars, timeVars, dpVars, isPaused, rwVars, pcVars, customers, barberReady,
                   customerId, barberChairCustomer>>

\* Mutant: the promotion also counts the customer it seats.
BarberPromotes_Counts ==
    /\ Running(Barber)
    /\ pc[Barber] = <<"b_promote", "w_done">>
    /\ sbMutex' = (sbMutex - 1) + 1
    /\ IF Len(waitingRoom) < MAX_CHAIRS /\ customerQueue # <<>>
       THEN /\ waitingRoom' = Seat(waitingRoom, Head(customerQueue))
            /\ customerQueue' = Tail(customerQueue)
            /\ customers' = customers + 1
            /\ BarberLoopTop(customers + 1)
       ELSE /\ UNCHANGED <<waitingRoom, customerQueue, customers>>
            /\ BarberLoopTop(customers)
    /\ UNCHANGED <<schedVars, timeVars, dpVars, isPaused, rwVars, pcVars, barberReady,
                   customerId, barberChairCustomer>>

\* Mutant: the promotion seats the queued customer without looking at the chairs.
BarberPromotes_NoCheck ==
    /\ Running(Barber)
    /\ pc[Barber] = <<"b_promote", "w_done">>
    /\ sbMutex' = (sbMutex - 1) + 1
    /\ IF customerQueue # <<>>
       THEN /\ waitingRoom' = Seat(waitingRoom, Head(customerQueue))
            /\ customerQueue' = Tail(customerQueue)
       ELSE UNCHANGED <<waitingRoom, customerQueue>>
    /\ BarberLoopTop(customers)
    /\ UNCHANGED <<schedVars, timeVars, dpVars, isPaused, rwVars, pcVars, customers, barberReady,
                   customerId, barberChairCustomer>>

\* barberLogic after smartWait(mutex > 0) of the promotion: mutex--, the head of
\* customerQueue takes a seat when a chair is free, mutex++, top of the loop.
BarberPromotes ==
    /\ Running(Barber)
    /\ pc[Barber] = <<"b_promote", "w_done">>
    /\ sbMutex' = (sbMutex - 1) + 1
    /\ IF Len(waitingRoom) < MAX_CHAIRS /\ customerQueue # <<>>
       THEN /\ waitingRoom' = Seat(waitingRoom, Head(customerQueue))
            /\ customerQueue' = Tail(customerQueue)
       ELSE UNCHANGED <<waitingRoom, customerQueue>>
    /\ BarberLoopTop(customers)
    /\ UNCHANGED <<schedVars, timeVars, dpVars, isPaused, rwVars, pcVars, customers, barberReady,
                   customerId, barberChairCustomer>>

\* sb-add-customer click: customerLogic up to `await sleep(2000)`.
AddCustomer ==
    /\ micro = <<>>
    /\ customerId < MaxCustomers
    /\ customerId' = customerId + 1
    /\ customerQueue' = Append(customerQueue, <<"K", customerId'>>)
    /\ StartActor(<<"K", customerId'>>, "k_outside")
    /\ UNCHANGED <<schedVars, timeVars, dpVars, isPaused, rwVars, pcVars, customers, barberReady, sbMutex,
                   waitingRoom, barberState, barberChairCustomer>>

\* customerLogic after its sleep: smartWait(mutex > 0).
CustomerChecks(c) ==
    /\ Running(c)
    /\ pc[c] = <<"k_outside", "s_done">>
    /\ Goto(c, "k_check", SmartWaitCall(sbMutex > 0))
    /\ UNCHANGED <<schedVars, timeVars, dpVars, isPaused, rwVars, pcVars, sbVars>>

\* customerLogic after smartWait(mutex > 0): mutex--, then with a free chair
\* customers++ and the move from customerQueue to the waiting room (when still in
\* the queue), else the customer leaves the queue; mutex++, and it returns.
CustomerEntersOrLeaves(c) ==
    /\ Running(c)
    /\ pc[c] = <<"k_check", "w_done">>
    /\ sbMutex' = (sbMutex - 1) + 1
    /\ IF Len(waitingRoom) < MAX_CHAIRS
       THEN /\ customers' = customers + 1
            /\ waitingRoom' = IF c \in Range(customerQueue) THEN Seat(waitingRoom, c)
                                                           ELSE waitingRoom
            /\ customerQueue' = Without(customerQueue, c)
            /\ Finish(c, "k_entered")
       ELSE /\ customerQueue' = Without(customerQueue, c)
            /\ UNCHANGED <<customers, waitingRoom>>
            /\ Finish(c, "k_left")
    /\ UNCHANGED <<schedVars, timeVars, dpVars, isPaused, rwVars, pcVars, barberReady, customerId,
                   barberState, barberChairCustomer>>

SBStep(a) ==
    \/ a = Barber /\ BarberWakes
    \/ a = Barber /\ BarberTakesCustomer
    \/ a = Barber /\ BarberFinishes
    \/ a = Barber /\ BarberPromotes
    \/ CustomerChecks(a)
    \/ CustomerEntersOrLeaves(a)

NextSB ==
    \/ TogglePause
    \/ AddCustomer
    \/ \E a \in SBIds : PacingStep(a)
    \/ \E a \in SBIds : PollStep(a)
    \/ \E a \in SBIds : SBStep(a)

SpecSB == Init /\ [][NextSB]_vars

\* ------------------------------------------------- reader-writer properties

\* No promise job is pending: the state between two macrotasks.
Stable == micro = <<>>

\* Between ENTERED and LEFT of readerLogic / writerLogic.
ReaderIn(a) == atype[a] = "reader" /\ pc[a][1] = "r_read"
WriterIn(a) == atype[a] = "writer" /\ pc[a][1] = "w_write"

\* C1: a writer is never inside the resource while a reader is inside it.
C1_NoWriterWithReader ==
    \A r \in RWIds, w \in RWIds : ~(ReaderIn(r) /\ WriterIn(w))

\* C2: wrt = 0 whenever readCount > 0 or a writer is inside (between macrotasks),
\* and no reader is inside the resource while wrt is still 1.
C2_WrtHeldWhileInUse ==
    /\ Stable => ((readCount > 0 \/ WriterInside) => wrt = 0)
    /\ \A r \in RWIds : ReaderIn(r) => wrt # 1

\* C3: at most one writer is between its wrt acquire and its wrt release.
C3_WritersExclusive ==
    \A v \in RWIds, w \in RWIds : (WriterIn(v) /\ WriterIn(w)) => v = w

\* C3 witness: a writer is inside while a second writer has arrived and waits.
C3_Witness ==
    /\ WriterInside
    /\ WriterQueued

\* C4: wrt and mutex only take the values 0 and 1, and readCount is never negative.
C4_SemaphoreRange ==
    /\ wrt \in {0, 1}
    /\ rwMutex \in {0, 1}
    /\ readCount >= 0

\* A step that dispatches the queued writer w (it leaves the queue and starts writerLogic).
WriterDispatched(w) == atype[w] = "writer" /\ pc[w] = Queued /\ pc'[w] # Queued

QueuedReaders == {queue[i] : i \in 1..Len(queue)} \cap {x \in RWIds : atype[x] = "reader"}

\* C5: when readers R1 and R2 arrived while writer W1 was queued and no writer was
\* inside, both are admitted before W1 is: no step dispatches the writer and leaves
\* one of them waiting in the queue.
C5_ReadersBeforeWriter ==
    [][\A w \in RWIds :
         (WriterDispatched(w) /\ Cardinality(arrivedBehind) >= 2)
            => arrivedBehind \cap QueuedReaders' = {}]_vars

\* C6: a reader that arrives while only readers are inside (readCount > 0, no writer
\* inside, no writer queued) is admitted at once: between macrotasks no reader is
\* left waiting in the queue in such a state.
C6_ReaderJoinsReaders ==
    Stable => ~(/\ QueuedReaders # {}
                /\ readCount > 0
                /\ ~WriterInside
                /\ ~WriterQueued)

FifoDispatch ==
    [][\A x \in RWIds : (pc[x] = Queued /\ pc'[x] # Queued) =>
          \E n \in 1..Len(queue) : /\ x \in {queue[i] : i \in 1..n}
                                   /\ queue' = SubSeq(queue, n + 1, Len(queue))]_vars

\* Reader-writer without pause, every started actor step eventually taken.
ActorRun(a) ==
    \/ SleepSetTimeout(a)
    \/ TimerFires(a)
    \/ SleepAfterTimer(a)
    \/ SleepReturn(a)
    \/ ReaderGotMutex(a)
    \/ ReaderGotWrt(a)
    \/ ReaderLeft(a)
    \/ ReaderExit(a)
    \/ WriterGotWrt(a)
    \/ WriterExit(a)

NextRWRun == \E a \in RWIds : AddReader(a) \/ AddWriter(a) \/ ActorRun(a)

FairSpecRW == Init /\ [][NextRWRun]_vars /\ \A a \in RWIds : WF_vars(ActorRun(a))

\* Under fair scheduling a queued writer is always eventually admitted, however
\* many readers keep arriving.
WriterEventuallyAdmitted ==
    \A w \in RWIds : (atype[w] = "writer" /\ pc[w] = Queued) ~> WriterIn(w)

\* C36: with the pause off, every queued reader or writer is eventually admitted to
\* the resource, every admitted one eventually leaves it, and the queue does not
\* stay non-empty forever while the resource is free.
C36_QueuedActorAdmittedAndLeaves ==
    /\ \A a \in RWIds : (pc[a] = Queued) ~> (ReaderIn(a) \/ WriterIn(a))
    /\ \A a \in RWIds : (ReaderIn(a) \/ WriterIn(a)) ~> (pc[a] = Idle)
    /\ ~<>[](queue # <<>> /\ \A a \in RWIds : ~ReaderIn(a) /\ ~WriterIn(a))

\* C36 witness: a writer is inside the resource while a reader and a second writer
\* wait in the queue.
C36_Witness ==
    /\ WriterInside
    /\ \E r \in RWIds : atype[r] = "reader" /\ pc[r] = Queued
    /\ \E w \in RWIds : atype[w] = "writer" /\ pc[w] = Queued

\* ------------------------------------------------ bounded-buffer properties

Occupied == Cardinality({i \in 1..BUFFER_SIZE : buffer[i] # Null})

\* A producer that has taken an empty permit and not yet written its item (also one
\* that returned there, removed after wait('empty') or after wait('mutex')).
HoldsEmptyPermit(a) ==
    /\ a \in ProdIds
    /\ \/ pc[a][1] = "p_empty" /\ pc[a][2] \in {"wt_done", "end"}
       \/ pc[a][1] = "p_mutex"

\* A producer that has written its item and not yet signalled full.
ProducedUnsignalled(a) == a \in ProdIds /\ pc[a][1] = "p_cs"

\* A consumer that has taken a full permit and not yet removed its item.
HoldsFullPermit(a) ==
    /\ a \in ConsIds
    /\ \/ pc[a][1] = "c_full" /\ pc[a][2] \in {"wt_done", "end"}
       \/ pc[a][1] = "c_mutex"

\* A consumer that has removed its item and not yet signalled empty.
ConsumedUnsignalled(a) == a \in ConsIds /\ pc[a][1] = "c_cs"

\* Between the mutex-- of wait('mutex') and signal('mutex').
HoldsMutex(a) ==
    \/ pc[a][1] \in {"p_mutex", "c_mutex"} /\ pc[a][2] \in {"wt_done", "end"}
    \/ pc[a][1] \in {"p_cs", "c_cs"}

\* C8 as claimed: in every reachable state the number of occupied slots equals
\* capacity - empty and equals full.
C8_OccupiedEqualsSemaphores ==
    /\ Occupied = BUFFER_SIZE - empty
    /\ Occupied = full

\* C8 as amended: the occupied slots and the semaphores differ exactly by the permits
\* taken and not yet matched by the buffer change and the opposite signal, so
\* full <= occupied <= capacity - empty, with equality when no permit is outstanding.
C8_PermitAccounting ==
    /\ Occupied + Cardinality({a \in PCIds : HoldsEmptyPermit(a)})
                + Cardinality({a \in PCIds : ConsumedUnsignalled(a)}) = BUFFER_SIZE - empty
    /\ full + Cardinality({a \in PCIds : ProducedUnsignalled(a)})
            + Cardinality({a \in PCIds : HoldsFullPermit(a)}) = Occupied

\* C8 witness: a removed producer returned holding an empty permit while a consumer
\* is in its critical section.
C8_Witness ==
    /\ \E a \in ProdIds : pc[a] = <<"p_empty", "end">>
    /\ \E c \in ConsIds : pc[c][1] = "c_cs"

\* C9: 0 <= empty <= capacity, 0 <= full <= capacity, and the occupied slots never
\* exceed the capacity.
C9_SemaphoreBounds ==
    /\ empty \in 0..BUFFER_SIZE
    /\ full \in 0..BUFFER_SIZE
    /\ Occupied <= BUFFER_SIZE

\* C9 witness: the buffer is full (empty = 0, full = capacity) and a producer polls
\* for an empty slot.
C9_Witness ==
    /\ empty = 0
    /\ full = BUFFER_SIZE
    /\ \E a \in ProdIds : pc[a] = <<"p_empty", "w_t">>

\* C10: at most one actor is between its mutex acquire and its mutex release, mutex
\* is 0 or 1, and the buffer changes only in a step of the actor holding mutex.
C10_MutexExclusion ==
    /\ [](/\ \A a \in PCIds, b \in PCIds : (HoldsMutex(a) /\ HoldsMutex(b)) => a = b
          /\ pcMutex \in {0, 1})
    /\ [][buffer' # buffer =>
            \E a \in PCIds : Running(a) /\ HoldsMutex(a) /\ pcMutex = 0]_vars

\* C10 witness: one actor is in its critical section while another polls for mutex.
C10_Witness ==
    \E a \in PCIds, b \in PCIds :
        /\ pc[a][1] \in {"p_cs", "c_cs"}
        /\ pc[b][1] \in {"p_mutex", "c_mutex"} /\ pc[b][2] = "w_t"

\* C23: a removed producer or consumer that has returned does not hold mutex and has
\* not taken an empty or full permit without the matching buffer change and signal.
C23_RemovedActorLeavesClean ==
    \A a \in PCIds :
        pc[a][2] = "end" =>
            /\ ~HoldsMutex(a)
            /\ ~HoldsEmptyPermit(a)
            /\ ~HoldsFullPermit(a)

\* The locations of a semaphore wait and of the buffer critical section.
WaitLocs == {"p_empty", "p_mutex", "c_full", "c_mutex"}
CSLocs == {"p_cs", "c_cs"}

\* C24: once its running flag is cleared an actor starts no new semaphore wait and
\* does not enter the critical section, and none of its steps changes the buffer
\* (the write of a critical section is made on entering it).
C24_RemovedActorWindsDown ==
    [][\A a \in PCIds :
         (~running[a] /\ pc[a] # Idle) =>
            /\ pc'[a][1] \in WaitLocs => pc'[a][1] = pc[a][1]
            /\ pc'[a][1] \in CSLocs => pc[a][1] \in CSLocs
            /\ Running(a) => buffer' = buffer]_vars

\* C24 witness: one removed actor is still inside the critical section it had
\* entered, another removed actor is still polling in the wait it had started.
C24_Witness ==
    \E a \in PCIds, b \in PCIds :
        /\ ~running[a] /\ pc[a][1] \in CSLocs
        /\ ~running[b] /\ pc[b][1] \in WaitLocs /\ pc[b][2] = "w_t"

\* C25: a producer entering its critical section writes its item into the
\* lowest-index free slot, a consumer entering its critical section clears the
\* highest-index occupied slot, every other slot is left as it was, and the buffer
\* changes in no other step.
C25_OneSlotPerCriticalSection ==
    [][/\ \A a \in PCIds :
            (pc'[a][1] \in CSLocs /\ pc[a][1] \notin CSLocs) =>
                \E i \in 1..BUFFER_SIZE :
                    /\ \A j \in 1..BUFFER_SIZE : j # i => buffer'[j] = buffer[j]
                    /\ IF a \in ProdIds
                       THEN /\ buffer[i] = Null
                            /\ buffer'[i] = <<"Item", a[2]>>
                            /\ \A j \in 1..(i - 1) : buffer[j] # Null
                       ELSE /\ buffer[i] # Null
                            /\ buffer'[i] = Null
                            /\ \A j \in (i + 1)..BUFFER_SIZE : buffer[j] = Null
       /\ buffer' # buffer =>
            \E a \in PCIds : pc'[a][1] \in CSLocs /\ pc[a][1] \notin CSLocs]_vars

\* C25 witness: a consumer is in its critical section after taking the last of two
\* items: the first slot is still occupied and counted by full, the second is free.
C25_Witness ==
    /\ \E c \in ConsIds : pc[c][1] = "c_cs"
    /\ \A a \in ProdIds : pc[a][1] # "p_cs"
    /\ full = 1
    /\ buffer[1] # Null
    /\ \A i \in 2..BUFFER_SIZE : buffer[i] = Null

\* The steps of one producer or consumer when the simulation is not paused.
PCActorRun(a) ==
    \/ SleepSetTimeout(a)
    \/ TimerFires(a)
    \/ SleepAfterTimer(a)
    \/ SleepReturn(a)
    \/ SmartWaitSetTimeout(a)
    \/ SmartWaitRecheck(a)
    \/ PCStep(a)

NextPCRun ==
    \/ AddProducer
    \/ AddConsumer
    \/ RemoveProducer
    \/ RemoveConsumer
    \/ \E a \in PCIds : PCActorRun(a)

\* The event loop runs every promise job and every timer that is due: an actor
\* whose next step is possible again and again takes it.
FairSpecPC == Init /\ [][NextPCRun]_vars /\ \A a \in PCIds : SF_vars(PCActorRun(a))

\* C26: with the pause off, a removed producer or consumer eventually returns
\* from its loop.
C26_RemovedActorTerminates ==
    \A a \in PCIds : (~running[a] /\ pc[a] # Idle) ~> (pc[a][2] = "end")

\* C37: with the pause off, when from some point on a producer and a consumer are
\* running, critical sections keep being entered: items keep being produced and
\* consumed.
C37_RemainingActorsProgress ==
    <>[]((\E a \in ProdIds : running[a]) /\ (\E c \in ConsIds : running[c]))
        => /\ []<>(\E a \in ProdIds : pc[a] = <<"p_mutex", "wt_done">> /\ running[a])
           /\ []<>(\E c \in ConsIds : pc[c] = <<"c_mutex", "wt_done">> /\ running[c])

\* -------------------------------------------------------- pacing properties

\* C11: a resume releases every actor blocked at a pause check: after a step
\* that takes isPaused from true to false no actor that was suspended in
\* checkPause is still suspended there.
C11_ResumeReleasesAll ==
    [][(isPaused /\ ~isPaused') =>
          \A a \in Actors : pc[a][2] \in BlockedStages => pc'[a][2] \notin BlockedStages]_vars

\* Stages of sleep behind a passed pause check (s_c1, s_c2) and its return (s_done).
PassedStages == {"s_c1", "s_c2", "s_done"}

\* C12: a sleep started while paused, or whose timer expires while paused, does
\* not return before the resume: no sleep is past one of its pause checks while
\* isPaused holds, and a sleep suspended on the pause promise leaves it only in
\* the step that resumes.
C12_SleepHeldWhilePaused ==
    /\ [](\A a \in Actors : pc[a][2] \in PassedStages => ~isPaused)
    /\ [][\A a \in Actors :
            (pc[a][2] \in {"s_p1", "s_p2"} /\ pc'[a] # pc[a]) => (isPaused /\ ~isPaused')]_vars

\* C12 witness: while paused, one sleep is held after its timer expired and
\* another was started and is held before its timer.
C12_Witness ==
    /\ isPaused
    /\ \E a \in Actors : pc[a][2] = "s_p2"
    /\ \E b \in Actors : pc[b][2] = "s_p1"

\* C13: while paused no semaphore acquire completes: no step taken with isPaused
\* true decrements empty, full or mutex.
C13_NoAcquireWhilePaused ==
    [][isPaused => (empty' >= empty /\ full' >= full /\ pcMutex' >= pcMutex)]_vars

\* C14: a speed change rescales only future delays: a sleep registers its timer
\* with delay ms / speed of the moment it starts, no step changes that timer while
\* the delay is in flight, and the delay ends no earlier than start + delay.
C14_SpeedChangeNotRetroactive ==
    [][\A a \in SleepIds :
         /\ (pc[a][2] = "s_c1" /\ pc'[a][2] = "s_t")
               => timers'[a] = [start |-> now, delay |-> sleepMs[a] \div speed]
         /\ (pc[a][2] = "s_t" /\ pc'[a][2] = "s_t") => timers'[a] = timers[a]
         /\ (pc[a][2] = "s_t" /\ pc'[a][2] = "s_tf")
               => now >= timers[a].start + timers[a].delay]_vars

\* C14 witness: a delay in flight is due at its registered time although the speed
\* set since it started would give it another length.
C14_Witness ==
    \E a \in SleepIds : /\ pc[a][2] = "s_t"
                        /\ timers[a].delay # sleepMs[a] \div speed
                        /\ now = timers[a].start + timers[a].delay

\* ------------------------------------------------------- dining properties

\* C15: in every reachable state an Eating philosopher has both its chopsticks
\* (p and (p+1) mod 5) Taken, and two adjacent philosophers are never Eating at
\* the same time.
C15_DiningConservation ==
    \A p \in Phils :
        philosopherStates[p] = EATING =>
            /\ chopstickStates[Left(p)] = 1
            /\ chopstickStates[Right(p)] = 1
            /\ philosopherStates[Right(p)] # EATING

\* Loop l is in the part of an iteration that precedes its checkDeadlock call.
BeforeCheck(l) == pc[l][1] \in {"dp_pickup", "dp_tick", "dp_s50"}

\* Loop l executes its checkDeadlock call in this step.
Checks(l) == Running(l) /\ pc[l] = <<"dp_s50", "s_done">>

\* C16: with the toggle off, whenever all philosophers are Hungry and all chopsticks
\* Taken, the state has been reported or a loop is in the iteration whose
\* checkDeadlock call is still to come, and that call reports it.
C16_DeadlockReportedWithinTick ==
    /\ []((~solutionChecked /\ Deadlocked) =>
             (deadlockLog > 0 \/ \E l \in LoopIds : BeforeCheck(l)))
    /\ [][\A l \in LoopIds : (Checks(l) /\ ~solutionChecked /\ Deadlocked)
                                => deadlockLog' = deadlockLog + 1]_vars

\* C16 witness: toggle off, all Hungry and all chopsticks Taken, and reported.
C16_Witness ==
    /\ ~solutionChecked
    /\ Deadlocked
    /\ deadlockLog = 1

\* C17: with the avoidance toggle on the detector never reports a deadlock, and
\* no checkDeadlock call finds all philosophers Hungry and all chopsticks Taken.
C17_NoDeadlockWithAvoidance ==
    /\ [](solutionChecked => \A l \in LoopIds : Checks(l) => ~Deadlocked)
    /\ [][solutionChecked => deadlockLog' <= deadlockLog]_vars

\* C17 witness: toggle on, every philosopher is Hungry, a chopstick is Taken and a
\* loop is at its checkDeadlock call.
C17_Witness ==
    /\ solutionChecked
    /\ \A p \in Phils : philosopherStates[p] = HUNGRY
    /\ \E c \in Phils : chopstickStates[c] = 1
    /\ \E l \in LoopIds : Checks(l)

\* C18: after a report no further report is emitted and no philosopher or chopstick
\* state changes until Start is clicked again (or the user changes the toggle).
C18_OneShotReportAndHalt ==
    [][(deadlockLog > 0 /\ deadlockLog' # 0 /\ solutionChecked' = solutionChecked) =>
          /\ deadlockLog' = deadlockLog
          /\ philosopherStates' = philosopherStates
          /\ chopstickStates' = chopstickStates]_vars

\* C19: the detector fires exactly in a checkDeadlock call that finds all
\* philosophers Hungry and all chopsticks Taken, never with a Thinking or Eating
\* philosopher or a Free chopstick.
C19_DetectorFiresExactly ==
    [][(deadlockLog' > deadlockLog) <=> (\E l \in LoopIds : Checks(l) /\ Deadlocked)]_vars

\* C19 witness: a checkDeadlock call has just found every philosopher Hungry and
\* a chopstick Free, and has reported nothing.
C19_Witness ==
    /\ \A p \in Phils : philosopherStates[p] = HUNGRY
    /\ \E c \in Phils : chopstickStates[c] = 0
    /\ \E l \in LoopIds : pc[l] = <<"dp_s1000", "s_c1">>
    /\ deadlockLog = 0
    /\ isDpRunning

\* ------------------------------------------------------- barber properties

\* C20: waitingRoom.length never exceeds MAX_CHAIRS, whatever the number of
\* arriving customers and the interleaving of their admissions with the barber's
\* promotion of a queued customer.
C20_WaitingRoomCapacity == Len(waitingRoom) <= MAX_CHAIRS

\* C20 witness: the waiting room is full, holds a customer the barber promoted while
\* it was still in its arrival delay, and another customer found no chair and left.
C20_Witness ==
    /\ Len(waitingRoom) = MAX_CHAIRS
    /\ \E c \in Range(waitingRoom) : pc[c][1] = "k_outside"
    /\ \E c \in CustIds : pc[c] = <<"k_left", "end">>

\* C21: a customer that found the waiting room full and left is in neither
\* customerQueue nor waitingRoom, and is not in the barber chair.
C21_BalkedCustomerGone ==
    \A c \in CustIds :
        pc[c] = <<"k_left", "end">> =>
            /\ c \notin Range(customerQueue)
            /\ c \notin Range(waitingRoom)
            /\ barberChairCustomer # c

\* C22: with the mutex free and no promise job pending, the customers counter
\* equals the number of customers in the waiting room.
C22_CounterMirrorsRoom ==
    (sbMutex = 1 /\ Stable) => customers = Len(waitingRoom)

\* The steps of the barber or of one customer when the simulation is not paused.
SBActorRun(a) ==
    \/ SleepSetTimeout(a)
    \/ TimerFires(a)
    \/ SleepAfterTimer(a)
    \/ SleepReturn(a)
    \/ SmartWaitSetTimeout(a)
    \/ SmartWaitRecheck(a)
    \/ SBStep(a)

NextSBRun ==
    \/ AddCustomer
    \/ \E a \in SBIds : SBActorRun(a)

\* The event loop runs every promise job and every timer that is due.
FairSpecSB == Init /\ [][NextSBRun]_vars /\ \A a \in SBIds : SF_vars(SBActorRun(a))

\* C27: with the pause off, every customer in customerQueue eventually leaves it.
C27_QueuedCustomerLeavesQueue ==
    \A c \in CustIds : (c \in Range(customerQueue)) ~> (c \notin Range(customerQueue))

\* C27 witness: one customer has taken a chair, another has found the room full and
\* left, and the queue is empty again.
C27_Witness ==
    /\ \E c \in CustIds : pc[c] = <<"k_entered", "end">>
    /\ \E c \in CustIds : pc[c] = <<"k_left", "end">>
    /\ customerQueue = <<>>
    /\ barberChairCustomer \in CustIds

\* An actor resumed from smartWait(mutex > 0): its job runs mutex-- .. mutex++.
AcquiresMutex(a) ==
    /\ Running(a)
    /\ pc[a] \in {<<"b_mutex", "w_done">>, <<"b_promote", "w_done">>, <<"k_check", "w_done">>}

\* C28: every step that adds to or removes from waitingRoom or customerQueue is
\* taken by an actor that has acquired the barber-shop mutex for it.
C28_QueuesChangeUnderMutex ==
    [][(waitingRoom' # waitingRoom \/ customerQueue' # customerQueue) =>
            \E a \in SBIds : AcquiresMutex(a)]_vars

\* C29: the barber-shop mutex never leaves {0, 1}, and it is 1 whenever an actor is
\* suspended at an await: every mutex-- .. mutex++ bracket runs inside one job with
\* the value 0, so no two actors are between acquire and release at once.
C29_MutexBinary ==
    /\ [](sbMutex \in {0, 1} /\ sbMutex = 1)
    /\ [][\A a \in SBIds : AcquiresMutex(a) => (sbMutex - 1 = 0 /\ sbMutex' = 1)]_vars

\* C29 witness: the barber is about to acquire the mutex for a promotion, a customer
\* has been through its own acquire and release, another is still outside.
C29_Witness ==
    /\ pc[Barber] = <<"b_promote", "w_done">>
    /\ \E c \in CustIds : pc[c] = <<"k_entered", "end">>
    /\ \E c \in Range(customerQueue) : pc[c][1] = "k_outside"

\* ------------------------------------------------- dining properties (naive)

\* C30: with the avoidance off, a Hungry philosopher that holds its first chopstick
\* and finds its second Taken puts the first down: after that step it is Hungry and
\* its first chopstick is Free.
C30_NaiveReleasesFirst ==
    [][\A l \in LoopIds :
         (/\ Running(l)
          /\ pc[l] = <<"dp_pickup", "s_done">>
          /\ ~loopUse[l]
          /\ philosopherStates[loopP[l]] = HUNGRY
          /\ chopstickStates[FirstStick(loopP[l], FALSE)] = 1
          /\ chopstickStates[SecondStick(loopP[l], FALSE)] = 1) =>
            /\ philosopherStates'[loopP[l]] = HUNGRY
            /\ chopstickStates'[FirstStick(loopP[l], FALSE)] = 0]_vars

C32_SeatedCustomerServed ==
    \A c \in CustIds : (c \in Range(waitingRoom)) ~> (barberChairCustomer = c)

\* The tick loops that have been started and have not ended.
ActiveLoops == {l \in LoopIds : pc[l] # Idle}

\* C33: at most one tick loop is active at any time, for any sequence of Start,
\* Stop and toggle actions.
C33_SingleTickLoop == Cardinality(ActiveLoops) <= 1

\* Philosopher p is Hungry and holds its left chopstick after a failed pickup of
\* the right one: the chopstick is Taken, the neighbour that shares it is not
\* Eating, and no pickup of p is in flight.
KeptFirst(p) ==
    /\ philosopherStates[p] = HUNGRY
    /\ chopstickStates[Left(p)] = 1
    /\ philosopherStates[(p + NumPhil - 1) % NumPhil] # EATING
    /\ \A k \in LoopIds : pc[k][1] = "dp_pickup" => loopP[k] # p

\* C34: with the toggle off, a tick that selects a Hungry philosopher holding its
\* first chopstick while its second is Free takes the second chopstick: the
\* philosopher is Eating after it.
C34_HolderEatsWhenSecondFree ==
    [][\A l \in LoopIds, p \in Phils :
         (/\ LoopIterate(l, p)
          /\ ~solutionChecked
          /\ KeptFirst(p)
          /\ chopstickStates[Right(p)] = 0) =>
            \/ philosopherStates'[p] = EATING
            \/ chopstickStates'[Right(p)] = 1]_vars

\* C35: while the simulation is stopped and the table is reset (the state a toggle
\* change leaves), every step other than a Start leaves all philosophers Thinking
\* and all chopsticks Free.
C35_ToggleResetHolds ==
    [][(/\ ~isDpRunning
        /\ philosopherStates = AllThinking
        /\ chopstickStates = AllFree
        /\ ~isDpRunning') =>
            /\ philosopherStates' = AllThinking
            /\ chopstickStates' = AllFree]_vars

\* ------------------------------------------------------------ CPU scheduling

\* Array.prototype.sort with a comparator a[key] - b[key]: a stable sort.
RECURSIVE InsertSorted(_, _, _)
InsertSorted(s, x, key) ==
    IF s = <<>> THEN <<x>>
    ELSE IF x[key] < Head(s)[key] THEN <<x>> \o s
         ELSE <<Head(s)>> \o InsertSorted(Tail(s), x, key)

RECURSIVE SortBy(_, _)
SortBy(s, key) ==
    IF s = <<>> THEN <<>>
    ELSE InsertSorted(SortBy(SubSeq(s, 1, Len(s) - 1), key), s[Len(s)], key)

\* gantt.push({ pid, start, end }).
Block(pid, start, end) == [pid |-> pid, start |-> start, end |-> end]

\* processStats[p.pid] = { ...p, completionTime, turnaroundTime, waitTime, responseTime }.
SetStats(stats, p, completionTime, turnaroundTime, waitTime, responseTime) ==
    [x \in DOMAIN stats \cup {p.pid} |->
        IF x = p.pid
        THEN [pid |-> p.pid, arrival |-> p.arrival, burst |-> p.burst,
              completionTime |-> completionTime, turnaroundTime |-> turnaroundTime,
              waitTime |-> waitTime, responseTime |-> responseTime]
        ELSE stats[x]]

\* The forEach of runFCFS over the processes sorted by arrival.
RECURSIVE FCFSLoop(_, _, _, _)
FCFSLoop(ps, currentTime, gantt, stats) ==
    IF ps = <<>> THEN [gantt |-> gantt, processStats |-> stats]
    ELSE LET p == Head(ps)
             idle == IF currentTime < p.arrival
                     THEN <<Block(IDLE, currentTime, p.arrival)>> ELSE <<>>
             startTime == IF currentTime < p.arrival THEN p.arrival ELSE currentTime
             completionTime == startTime + p.burst
             turnaroundTime == completionTime - p.arrival
             waitTime == startTime - p.arrival
             responseTime == startTime - p.arrival
         IN  FCFSLoop(Tail(ps), completionTime,
                      gantt \o idle \o <<Block(p.pid, startTime, completionTime)>>,
                      SetStats(stats, p, completionTime, turnaroundTime, waitTime,
                               responseTime))

runFCFS(ps) == FCFSLoop(SortBy(ps, "arrival"), 0, <<>>, <<>>)

\* Math.min over the arrivals of the processes not completed.
NextArrivalTime(ps, isCompleted) ==
    LET pending == {ps[i].arrival : i \in {k \in 1..Len(ps) : ps[k].pid \notin isCompleted}}
    IN  CHOOSE t \in pending : \A u \in pending : t <= u

\* The while loop of runSJF.
RECURSIVE SJFLoop(_, _, _, _, _, _)
SJFLoop(ps, isCompleted, firstRun, currentTime, gantt, stats) ==
    IF Cardinality(isCompleted) >= Len(ps)
    THEN [gantt |-> gantt, processStats |-> stats]
    ELSE LET readyQueue == SelectSeq(ps, LAMBDA p : p.pid \notin isCompleted
                                                    /\ p.arrival <= currentTime)
         IN  IF readyQueue = <<>> /\ NextArrivalTime(ps, isCompleted) > currentTime
             THEN SJFLoop(ps, isCompleted, firstRun, NextArrivalTime(ps, isCompleted),
                          gantt \o <<Block(IDLE, currentTime,
                                           NextArrivalTime(ps, isCompleted))>>,
                          stats)
             ELSE LET p == Head(SortBy(readyQueue, "burst"))
                      startTime == currentTime
                      responseTime == IF p.pid \notin firstRun
                                      THEN startTime - p.arrival ELSE 0
                      completionTime == startTime + p.burst
                      turnaroundTime == completionTime - p.arrival
                      waitTime == startTime - p.arrival
                  IN  SJFLoop(ps, isCompleted \cup {p.pid}, firstRun \cup {p.pid},
                              completionTime,
                              gantt \o <<Block(p.pid, startTime, completionTime)>>,
                              SetStats(stats, p, completionTime, turnaroundTime,
                                       waitTime, responseTime))

runSJF(ps) == SJFLoop(ps, {}, {}, 0, <<>>, <<>>)

\* The inner while of runRR: the processes that have arrived by currentTime join
\* the ready queue; processPointer is the index of the next one (from 1).
RECURSIVE Admit(_, _, _, _)
Admit(ps, processPointer, readyQueue, currentTime) ==
    IF processPointer <= Len(ps) /\ ps[processPointer].arrival <= currentTime
    THEN Admit(ps, processPointer + 1, Append(readyQueue, ps[processPointer]), currentTime)
    ELSE [readyQueue |-> readyQueue, processPointer |-> processPointer]

\* Mutant: a time slice always lasts the whole quantum.
RunTime_WholeQuantum(quantum, remaining) == quantum

\* Math.min(quantum, remainingBurst[p.pid]).
RunTime(quantum, remaining) == IF quantum < remaining THEN quantum ELSE remaining

\* The while loop of runRR over the processes sorted by arrival.
RECURSIVE RRLoop(_, _, _, _, _, _, _, _, _)
RRLoop(ps, quantum, currentTime, processPointer, readyQueue, remainingBurst, firstRun, gantt, stats) ==
    IF ~\E x \in DOMAIN remainingBurst : remainingBurst[x] > 0
    THEN [gantt |-> gantt, processStats |-> stats]
    ELSE LET a == Admit(ps, processPointer, readyQueue, currentTime)
         IN  IF a.readyQueue = <<>>
             THEN IF a.processPointer <= Len(ps)
                  THEN RRLoop(ps, quantum, ps[a.processPointer].arrival, a.processPointer,
                              a.readyQueue, remainingBurst, firstRun,
                              gantt \o <<Block(IDLE, currentTime,
                                               ps[a.processPointer].arrival)>>,
                              stats)
                  ELSE [gantt |-> gantt, processStats |-> stats]
             ELSE LET p == Head(a.readyQueue)
                      startTime == currentTime
                      runTime == RunTime(quantum, remainingBurst[p.pid])
                      responseTime == IF p.pid \notin firstRun
                                      THEN startTime - p.arrival ELSE 0
                      remaining == [remainingBurst EXCEPT ![p.pid] = @ - runTime]
                      endTime == currentTime + runTime
                      b == Admit(ps, a.processPointer, Tail(a.readyQueue), endTime)
                      completionTime == endTime
                      turnaroundTime == completionTime - p.arrival
                      waitTime == turnaroundTime - p.burst
                  IN  IF remaining[p.pid] > 0
                      THEN RRLoop(ps, quantum, endTime, b.processPointer,
                                  Append(b.readyQueue, p), remaining,
                                  firstRun \cup {p.pid},
                                  gantt \o <<Block(p.pid, startTime, endTime)>>, stats)
                      ELSE RRLoop(ps, quantum, endTime, b.processPointer, b.readyQueue,
                                  remaining, firstRun \cup {p.pid},
                                  gantt \o <<Block(p.pid, startTime, endTime)>>,
                                  SetStats(stats, p, completionTime, turnaroundTime,
                                           waitTime, responseTime))

runRR(ps, quantum) ==
    RRLoop(SortBy(ps, "arrival"), quantum, 0, 1, <<>>,
           [x \in {ps[i].pid : i \in 1..Len(ps)} |->
               ps[CHOOSE i \in 1..Len(ps) : ps[i].pid = x].burst],
           {}, <<>>, <<>>)

\* Most processes in the table of a run after a reset.
MaxProcs == 2
\* Largest arrival time entered.
MaxArrival == 2
\* Largest burst time entered.
MaxBurst == 3
\* Largest time quantum entered.
MaxQuantum == 2

Algorithms == {"fcfs", "sjf", "rr"}

\* Click on Add Process: rejected while animating or for an invalid input.
AddProcess(arrival, burst) ==
    /\ ~isAnimating
    /\ arrival >= 0 /\ burst > 0
    /\ Len(processes) < MaxProcs
    /\ processes' = Append(processes, [pid |-> processIdCounter, arrival |-> arrival,
                                        burst |-> burst])
    /\ processIdCounter' = processIdCounter + 1
    /\ UNCHANGED <<isAnimating, results>>
    /\ UNCHANGED <<pacingVars, micro, pc, rwVars, pcVars, timeVars, dpVars, sbVars>>

\* Click on Run up to the await of the animation: the algorithm runs on a copy
\* of the table and its results are displayed.
RunScheduler(algorithm, quantum) ==
    /\ processes # <<>>
    /\ ~isAnimating
    /\ algorithm = "rr" => quantum > 0
    /\ isAnimating' = TRUE
    /\ results' = LET r == CASE algorithm = "fcfs" -> runFCFS(processes)
                            [] algorithm = "sjf" -> runSJF(processes)
                            [] algorithm = "rr" -> runRR(processes, quantum)
                   IN  [algorithm |-> algorithm,
                        quantum |-> IF algorithm = "rr" THEN quantum ELSE 0,
                        gantt |-> r.gantt, processStats |-> r.processStats]
    /\ UNCHANGED <<processes, processIdCounter>>
    /\ UNCHANGED <<pacingVars, micro, pc, rwVars, pcVars, timeVars, dpVars, sbVars>>

\* The animation of the Gantt chart ends: the run handler resumes.
AnimationEnds ==
    /\ isAnimating
    /\ isAnimating' = FALSE
    /\ UNCHANGED <<processes, processIdCounter, results>>
    /\ UNCHANGED <<pacingVars, micro, pc, rwVars, pcVars, timeVars, dpVars, sbVars>>

\* Click on Reset: ignored while animating.
ResetScheduler ==
    /\ ~isAnimating
    /\ processes' = <<>>
    /\ processIdCounter' = 1
    /\ results' = NoResults
    /\ UNCHANGED isAnimating
    /\ UNCHANGED <<pacingVars, micro, pc, rwVars, pcVars, timeVars, dpVars, sbVars>>

NextSched ==
    \/ \E arrival \in 0..MaxArrival, burst \in 1..MaxBurst : AddProcess(arrival, burst)
    \/ \E algorithm \in Algorithms, quantum \in 1..MaxQuantum :
          RunScheduler(algorithm, quantum)
    \/ AnimationEnds
    \/ ResetScheduler

SpecSched == Init /\ [][NextSched]_vars

\* The indices of the Gantt blocks in which process pid runs.
BlocksOf(gantt, pid) == {i \in 1..Len(gantt) : gantt[i].pid = pid}

\* The start of the first Gantt block of process pid: its first dispatch.
FirstDispatch(gantt, pid) ==
    gantt[CHOOSE i \in BlocksOf(gantt, pid) : \A j \in BlocksOf(gantt, pid) : i <= j].start

\* The end of the last Gantt block of process pid.
LastEnd(gantt, pid) ==
    gantt[CHOOSE i \in BlocksOf(gantt, pid) : \A j \in BlocksOf(gantt, pid) : j <= i].end

\* The total time process pid runs in the Gantt chart.
RECURSIVE RunTotal(_, _)
RunTotal(gantt, pid) ==
    IF gantt = <<>> THEN 0
    ELSE (IF Head(gantt).pid = pid THEN Head(gantt).end - Head(gantt).start ELSE 0)
         + RunTotal(Tail(gantt), pid)

\* C38: round robin reports for every process a responseTime equal to the time
\* of its first dispatch minus its arrival, also when the process completes in a
\* later time slice than its first.
C38_RRResponseTime ==
    results.algorithm = "rr" =>
        \A x \in DOMAIN results.processStats :
            results.processStats[x].responseTime
                = FirstDispatch(results.gantt, x) - results.processStats[x].arrival

\* C39: for the process table of a run, each algorithm's Gantt chart starts at 0,
\* its blocks follow one another without gap or overlap, every process runs for
\* its burst in total and never before its arrival, and its statistics are
\* completionTime = end of its last block, turnaroundTime = completionTime -
\* arrival, waitTime = turnaroundTime - burst.
C39_GanttAndStatsConsistent ==
    isAnimating =>
        LET gantt == results.gantt
            stats == results.processStats
        IN  /\ gantt # <<>>
            /\ gantt[1].start = 0
            /\ \A i \in 1..Len(gantt) : gantt[i].start <= gantt[i].end
            /\ \A i \in 1..(Len(gantt) - 1) : gantt[i + 1].start = gantt[i].end
            /\ \A i \in 1..Len(gantt) :
                  gantt[i].pid = IDLE \/ \E k \in 1..Len(processes) :
                                            processes[k].pid = gantt[i].pid
            /\ DOMAIN stats = {processes[k].pid : k \in 1..Len(processes)}
            /\ \A k \in 1..Len(processes) :
                  LET p == processes[k]
                  IN  /\ RunTotal(gantt, p.pid) = p.burst
                      /\ \A i \in BlocksOf(gantt, p.pid) : gantt[i].start >= p.arrival
                      /\ stats[p.pid].completionTime = LastEnd(gantt, p.pid)
                      /\ stats[p.pid].turnaroundTime
                            = stats[p.pid].completionTime - p.arrival
                      /\ stats[p.pid].waitTime = stats[p.pid].turnaroundTime - p.burst

\* A round-robin run with idle time in which a process needs several slices.
C39_Witness ==
    /\ isAnimating
    /\ results.algorithm = "rr"
    /\ \E i \in 1..Len(results.gantt) : results.gantt[i].pid = IDLE
    /\ \E k \in 1..Len(processes) :
          Cardinality(BlocksOf(results.gantt, processes[k].pid)) >= 2

TypeOK ==
    /\ isPaused \in BOOLEAN
    /\ pauseResolver \in Actors \cup {NoActor}
    /\ micro \in Seq(Actors)
    /\ \A a \in Actors : pc[a][2] \in ReadyStages <=> a \in Range(micro)
    /\ queue \in Seq(RWIds)
    /\ \A a \in RWIds : pc[a] = Queued <=> a \in Range(queue)
    /\ atype \in [RWIds -> {"reader", "writer", "none"}]
    /\ producers \in Seq(ProdIds)
    /\ consumers \in Seq(ConsIds)
    /\ running \in [PCIds -> BOOLEAN]
    /\ \A a \in PCIds : running[a] <=> a \in Range(producers) \cup Range(consumers)
    /\ isAnimating \in BOOLEAN
    /\ processIdCounter = Len(processes) + 1
    /\ \A k \in 1..Len(processes) :
          processes[k].pid = k /\ processes[k].arrival >= 0 /\ processes[k].burst > 0
    /\ results.algorithm \in Algorithms \cup {"none"}

====
